---- MODULE Spec2Model ----
(***************************************************************************)
(* Model of src/inmet_process.py: the INMET station pipeline.              *)
(*                                                                         *)
(* Two specifications share the module:                                    *)
(*   SpecSeries  the data path of one station file: raw rows -> timestamp  *)
(*               index (lines 47-50) -> projected series (55-58) ->        *)
(*               persisted file (62) -> calculate_completeness (81-100);   *)
(*   Spec        the controller: main's loop over the years, the download, *)
(*               the thread pool of process_station_csv tasks, and         *)
(*               generate_completeness_report.                             *)
(***************************************************************************)
EXTENDS Integers, Sequences, FiniteSets, TLC

VARIABLES
    \* ---- SpecSeries: one station file through the data path
    dpc,        \* "raw" | "table" | "series" | "persisted" | "scored" ("idle" under Spec)
    raw,        \* the rows read by pd.read_csv (dtype=str): cells are text
    table,      \* df after lines 47-50: rows with their parsed 'datetime'
    series,     \* var_df after lines 55-58: <<datetime, value>> rows
    file,       \* the CSV written by var_df.to_csv: header and text rows
    result,     \* completeness in hundredths (0.80 is 80); -1 before scoring
    \* ---- Spec: the controller and its thread pool
    ctrl,       \* "acquire" | "extract" | "report" | "done" | "aborted" ("idle" under SpecSeries)
    yi,         \* index into years of the period being processed
    vi,         \* index into variables inside generate_completeness_report
    task,       \* member name -> task record, the futures of the current period
    dirs,       \* the processed directories that exist: <<var, year>>
    files,      \* the series files that exist: <<var, year, station code>>
    reports,    \* the report files that exist: <<var, year>>
    attempted,  \* the <<var, year>> loop iterations of the report that have run
    acq,        \* year -> outcome of download_inmet_zip ("pending" before it)
    raised      \* the exception that left main, "none" while there is none

dvars == <<dpc, raw, table, series, file, result>>
cvars == <<ctrl, yi, vi, task, dirs, files, reports, attempted, acq, raised>>
vars == <<dpc, raw, table, series, file, result,
          ctrl, yi, vi, task, dirs, files, reports, attempted, acq, raised>>

(***************************************************************************)
(* Bounds of the model.                                                    *)
(***************************************************************************)
MaxRows == 3        \* rows of a free-form station file
MaxTick == 2        \* free-form rows carry the times 0, Step, .., MaxTick*Step
StepMinutes == 30   \* minutes between two ticks (sub-hourly on purpose)
MaxHourly == 5      \* longest file of consecutive hourly rows
NumYears == 2       \* length of the --years list
MaxMembers == 2     \* members of one archive

(***************************************************************************)
(* Text cells.  Every cell of the station file is a string (dtype=str).    *)
(***************************************************************************)
NaT == -1           \* pandas' missing timestamp
NaN == -1000        \* pandas' missing number (the valid numbers are >= 0)

GoodDate == "2020/01/01"
BadDate  == "01-01-2020"

\* The text "HHMM UTC" of a minute of the day.
HoraText(m) == [digits |-> (m \div 60) * 100 + (m % 60), suffix |-> " UTC"]
BadHora == [digits |-> 2400, suffix |-> " UTC"]

\* pd.to_datetime(data + ' ' + hora, format='%Y/%m/%d %H%M UTC', errors='coerce'):
\* seconds since the day's midnight, NaT when the text does not match the format.
ToDatetime(data, hora) ==
    IF /\ data = GoodDate
       /\ hora.suffix = " UTC"
       /\ hora.digits \div 100 <= 23
       /\ hora.digits % 100 <= 59
    THEN (hora.digits \div 100) * 3600 + (hora.digits % 100) * 60
    ELSE NaT

\* pd.to_numeric(cell, errors='coerce') on a string cell: digits parse, a
\* comma-decimal such as "1,5" or any other text does not.
ToNumeric(cell) == IF cell.kind = "int" THEN cell.n ELSE NaN

IntCell(n) == [kind |-> "int", n |-> n]
TextCell   == [kind |-> "text", n |-> 0]
CommaCell  == [kind |-> "comma", n |-> 0]

(***************************************************************************)
(* process_station_csv, lines 47-50: the timestamp index.                  *)
(***************************************************************************)
\* line 47: df['datetime'] = pd.to_datetime(df['data'] + ' ' + df['hora utc'], ...)
WithDatetime(rows) ==
    [i \in DOMAIN rows |->
        [datetime |-> ToDatetime(rows[i].data, rows[i].hora),
         value    |-> rows[i].value]]

\* line 48: df.dropna(subset=['datetime'])
DropNaT(rows) == SelectSeq(rows, LAMBDA r : r.datetime # NaT)

\* A slip of keep='first' to keep='last'.
RECURSIVE DropDuplicatesKeepLast(_)
DropDuplicatesKeepLast(rows) ==
    IF rows = <<>> THEN <<>>
    ELSE LET rest == DropDuplicatesKeepLast(Tail(rows))
         IN  IF \E i \in 2..Len(rows) : rows[i].datetime = Head(rows).datetime
             THEN rest
             ELSE <<Head(rows)>> \o rest

\* line 49: df.drop_duplicates(subset=['datetime'], keep='first')
RECURSIVE DropDuplicates(_)
DropDuplicates(rows) ==
    IF rows = <<>> THEN <<>>
    ELSE LET init == DropDuplicates(SubSeq(rows, 1, Len(rows) - 1))
             last == rows[Len(rows)]
         IN  IF \E i \in DOMAIN init : init[i].datetime = last.datetime
             THEN init
             ELSE Append(init, last)

\* lines 47-50 together; set_index keeps the row order (no sort).
TimestampIndex(rows) == DropDuplicates(DropNaT(WithDatetime(rows)))

(***************************************************************************)
(* process_station_csv, lines 55-58 / 67-70: the projection of one column. *)
(***************************************************************************)
\* A slip that leaves out the dropna of lines 58 / 70.
ProjectColumnKeepsInvalid(tbl) ==
    [i \in DOMAIN tbl |->
        [datetime |-> tbl[i].datetime, value |-> ToNumeric(tbl[i].value)]]

ProjectColumn(tbl) ==
    SelectSeq([i \in DOMAIN tbl |->
                  [datetime |-> tbl[i].datetime, value |-> ToNumeric(tbl[i].value)]],
              LAMBDA r : r.value # NaN)

(***************************************************************************)
(* var_df.to_csv (lines 62, 74) and pd.read_csv (line 85): the file holds  *)
(* a header line and one text row "2020-01-01 HH:MM:SS,<number>" per row.  *)
(***************************************************************************)
FormatTs(t) == [h |-> t \div 3600, m |-> (t % 3600) \div 60, s |-> t % 60]
FormatNum(v) == IntCell(v)
ToCsv(ser) ==
    [header |-> <<"datetime", "value">>,
     rows   |-> [i \in DOMAIN ser |->
                   [datetime |-> FormatTs(ser[i].datetime),
                    value    |-> FormatNum(ser[i].value)]]]

\* line 89: pd.to_datetime(df['datetime']) on the text written by to_csv.
ReadTs(x) == x.h * 3600 + x.m * 60 + x.s

(***************************************************************************)
(* calculate_completeness, lines 81-100.  Ratios are kept in hundredths.   *)
(***************************************************************************)
SetMin(S) == CHOOSE x \in S : \A y \in S : x <= y
SetMax(S) == CHOOSE x \in S : \A y \in S : x >= y

\* round(valid/expected, 2), in hundredths.  The quotient is rounded to the
\* nearest hundredth, an exact tie to the even one.  A tie needs expected to
\* be a multiple of 8; below 8 there is none and the float result is this one.
Round2(valid, expected) ==
    LET q == (100 * valid) \div expected
        r == (100 * valid) % expected
    IN  IF 2 * r < expected THEN q
        ELSE IF 2 * r > expected THEN q + 1
        ELSE IF q % 2 = 0 THEN q ELSE q + 1

\* A slip that forgets the "+ 1" of line 92.
ExpectedRecordsNoPlusOne(start_dt, end_dt) == (end_dt - start_dt) \div 3600

\* line 92: int((end_dt - start_dt).total_seconds() / 3600) + 1
ExpectedRecords(start_dt, end_dt) == (end_dt - start_dt) \div 3600 + 1

CalculateCompleteness(f) ==
    IF f.rows = <<>> THEN 0                                        \* lines 86-87
    ELSE IF ~({"datetime", "value"} \subseteq
                {f.header[i] : i \in DOMAIN f.header}) THEN 0      \* lines 99-100
    ELSE LET times    == {ReadTs(f.rows[i].datetime) : i \in DOMAIN f.rows}
             start_dt == SetMin(times)
             end_dt   == SetMax(times)
             valid_records ==
                 Cardinality({i \in DOMAIN f.rows : ToNumeric(f.rows[i].value) # NaN})
             expected_records == ExpectedRecords(start_dt, end_dt)
         IN  IF expected_records <= 0 THEN 0                       \* lines 94-95
             ELSE Round2(valid_records, expected_records)          \* line 97

(***************************************************************************)
(* The station files the data path is run on.                              *)
(***************************************************************************)
TsCells ==
    {[data |-> GoodDate, hora |-> HoraText(k * StepMinutes)] : k \in 0..MaxTick}
    \cup {[data |-> BadDate,  hora |-> HoraText(0)],
          [data |-> GoodDate, hora |-> BadHora]}
ValueCells == {IntCell(7), IntCell(9), TextCell}
FreeRows == {[data |-> c.data, hora |-> c.hora, value |-> v] :
                c \in TsCells, v \in ValueCells}
FreeTables == UNION {[1..n -> FreeRows] : n \in 0..MaxRows}

\* n consecutive hourly rows from 00:00, all valid but row p (p = 0: none).
HourlyTable(n, p, bad) ==
    [i \in 1..n |->
        [data  |-> GoodDate,
         hora  |-> HoraText((i - 1) * 60),
         value |-> IF i = p THEN bad ELSE IntCell(7)]]
HourlyTables ==
    {HourlyTable(n, p, bad) : n \in 2..MaxHourly, p \in 0..MaxHourly,
                              bad \in {TextCell, CommaCell}}

EmptyFile == [header |-> <<>>, rows |-> <<>>]

DataInit ==
    /\ dpc = "raw"
    /\ raw \in FreeTables \cup HourlyTables
    /\ table = <<>>
    /\ series = <<>>
    /\ file = EmptyFile
    /\ result = -1

DataIdle ==
    /\ dpc = "idle"
    /\ raw = <<>>
    /\ table = <<>>
    /\ series = <<>>
    /\ file = EmptyFile
    /\ result = -1

Extract ==
    /\ dpc = "raw"
    /\ table' = TimestampIndex(raw)
    /\ dpc' = "table"
    /\ UNCHANGED <<raw, series, file, result>>
    /\ UNCHANGED cvars

Project ==
    /\ dpc = "table"
    /\ series' = ProjectColumn(table)
    /\ dpc' = "series"
    /\ UNCHANGED <<raw, table, file, result>>
    /\ UNCHANGED cvars

Persist ==
    /\ dpc = "series"
    /\ file' = ToCsv(series)
    /\ dpc' = "persisted"
    /\ UNCHANGED <<raw, table, series, result>>
    /\ UNCHANGED cvars

Score ==
    /\ dpc = "persisted"
    /\ result' = CalculateCompleteness(file)
    /\ dpc' = "scored"
    /\ UNCHANGED <<raw, table, series, file>>
    /\ UNCHANGED cvars

(***************************************************************************)
(* The archive and its members.  A member name is its '_'-separated        *)
(* tokens and its extension.                                               *)
(***************************************************************************)
Years == [i \in 1..NumYears |-> 2019 + i]
Variables == <<"total_precipitation", "2m_air_temperature">>

\* The tokens that match [A-Z]\d{3}.
StationCodes == {"A001", "B002"}
NoMatch == "none"

\* The members an archive is drawn from; cols are the target columns the
\* member's table holds (lines 53, 65).
Members ==
    {[tokens |-> <<"INMET", "SE", "A001", "a">>, ext |-> ".CSV",
      cols |-> {"total_precipitation", "2m_air_temperature"}],
     [tokens |-> <<"INMET", "NE", "A001", "b">>, ext |-> ".CSV",
      cols |-> {"2m_air_temperature"}],
     [tokens |-> <<"INMET", "S", "B002", "a">>, ext |-> ".CSV",
      cols |-> {"total_precipitation"}],
     [tokens |-> <<"INMET", "A001", "x">>, ext |-> ".csv",
      cols |-> {}],
     [tokens |-> <<"INMET", "S", "B002", "info">>, ext |-> ".txt",
      cols |-> {}]}

\* line 34: re.search(r'INMET_.*_([A-Z]\d{3})_.*', filename).group(1).  The
\* code token needs "INMET_", then any text, then "_" before it and "_" after
\* it; the greedy .* takes the last such token.
StationCode(m) ==
    LET t == m.tokens
        hits == {j \in 1..Len(t) :
                    /\ t[j] \in StationCodes
                    /\ j < Len(t)
                    /\ \E i \in 1..Len(t) : t[i] = "INMET" /\ j >= i + 2}
    IN  IF hits = {} THEN NoMatch ELSE t[SetMax(hits)]

\* line 129: f.filename.lower().endswith('.csv')
IsCsv(m) == m.ext \in {".csv", ".CSV"}

Archives == {a \in SUBSET Members : Cardinality(a) <= MaxMembers}

\* lines 59-61, 71-73: os.path.join(..., var, str(year)) and <station>.csv
ProcessedDir(var, year) == <<var, year>>
OutputFile(var, year, code) == <<var, year, code>>

(***************************************************************************)
(* download_inmet_zip, lines 17-29.                                        *)
(***************************************************************************)
DownloadFailures == {"Timeout", "HTTPError", "BadZipFile"}

\* line 27: except requests.exceptions.RequestException
IsRequestException(e) == e \in {"Timeout", "HTTPError", "ConnectionError"}

(***************************************************************************)
(* process_station_csv, lines 31-78, one task of the pool per CSV member.  *)
(***************************************************************************)
MaxWorkers == 4
Terminal == {"skipped", "done", "caught", "raised"}
Running == {m \in DOMAIN task : task[m].pc \notin Terminal \cup {"queued"}}

NewTask(year) == [pc |-> "queued", year |-> year, k |-> 1]

\* The exception leaves the task and is stored in its future.
TaskExceptionUncaught == "raised"

\* lines 77-78: except Exception: logging.warning(...)
TaskExceptionOutcome == "caught"

\* After the block of column k: the next block, or line 76.
AfterColumn(t) ==
    IF t.k < Len(Variables) THEN [t EXCEPT !.pc = "col", !.k = t.k + 1]
    ELSE [t EXCEPT !.pc = "done"]

\* lines 34-37: a name without a station code returns at once.
TaskStart(m) ==
    /\ m \in DOMAIN task
    /\ task[m].pc = "queued"
    /\ Cardinality(Running) < MaxWorkers
    /\ task' = [task EXCEPT ![m].pc =
                   IF StationCode(m) = NoMatch THEN "skipped" ELSE "read"]
    /\ UNCHANGED <<ctrl, yi, vi, dirs, files, reports, attempted, acq, raised>>
    /\ UNCHANGED dvars

\* lines 40-50: the table is read and indexed.  An I/O error, a table that
\* does not parse or a missing 'data' / 'hora utc' column raises.
TaskRead(m) ==
    /\ m \in DOMAIN task
    /\ task[m].pc = "read"
    /\ \/ \E e \in {"OSError", "ParserError", "KeyError"} :
             task' = [task EXCEPT ![m].pc = TaskExceptionOutcome]
       \/ task' = [task EXCEPT ![m].pc = "col", ![m].k = 1]
    /\ UNCHANGED <<ctrl, yi, vi, dirs, files, reports, attempted, acq, raised>>
    /\ UNCHANGED dvars

\* lines 53-61 / 65-73: the column is looked up; when present it is projected,
\* the directory is made and the file is opened for writing.
TaskColumn(m) ==
    /\ m \in DOMAIN task
    /\ task[m].pc = "col"
    /\ LET t == task[m]
           v == Variables[t.k]
       IN  IF v \notin m.cols
           THEN /\ task' = [task EXCEPT ![m] = AfterColumn(t)]
                /\ UNCHANGED <<dirs, files>>
           ELSE \/ /\ task' = [task EXCEPT ![m].pc = "write"]
                   /\ dirs' = dirs \cup {ProcessedDir(v, t.year)}
                   /\ files' = files \cup {OutputFile(v, t.year, StationCode(m))}
                \/ /\ task' = [task EXCEPT ![m].pc = TaskExceptionOutcome]  \* makedirs fails
                   /\ UNCHANGED <<dirs, files>>
                \/ /\ task' = [task EXCEPT ![m].pc = TaskExceptionOutcome]  \* open fails
                   /\ dirs' = dirs \cup {ProcessedDir(v, t.year)}
                   /\ UNCHANGED files
    /\ UNCHANGED <<ctrl, yi, vi, reports, attempted, acq, raised>>
    /\ UNCHANGED dvars

\* lines 62 / 74: to_csv writes the rows and closes the file, or fails on the
\* way and leaves what it wrote.
TaskWrite(m) ==
    /\ m \in DOMAIN task
    /\ task[m].pc = "write"
    /\ LET t == task[m]
       IN  \/ task' = [task EXCEPT ![m] = AfterColumn(t)]
           \/ task' = [task EXCEPT ![m].pc = TaskExceptionOutcome]
    /\ UNCHANGED <<ctrl, yi, vi, dirs, files, reports, attempted, acq, raised>>
    /\ UNCHANGED dvars

(***************************************************************************)
(* process_year_data, lines 124-133.                                       *)
(***************************************************************************)
NoTasks == [m \in {} |-> NewTask(0)]

Acquire ==
    /\ ctrl = "acquire"
    /\ \/ \E a \in Archives :                                     \* lines 22-26
             /\ acq' = [acq EXCEPT ![yi] = "ok"]
             /\ task' = [m \in {x \in a : IsCsv(x)} |-> NewTask(Years[yi])]
             /\ ctrl' = "extract"
             /\ UNCHANGED <<vi, raised>>
       \/ \E e \in DownloadFailures :
             /\ acq' = [acq EXCEPT ![yi] = "failed"]
             /\ task' = NoTasks
             /\ IF IsRequestException(e)
                THEN /\ ctrl' = "report"                          \* lines 27-29, 127-128
                     /\ vi' = 1
                     /\ UNCHANGED raised
                ELSE /\ ctrl' = "aborted"                         \* nothing catches it
                     /\ raised' = e
                     /\ UNCHANGED vi
    /\ UNCHANGED <<yi, dirs, files, reports, attempted>>
    /\ UNCHANGED dvars

\* The controller moves on without waiting for the pool.
NoWait == TRUE

\* lines 130-133: the with block ends when every future is finished.
AllTasksFinished == \A m \in DOMAIN task : task[m].pc \in Terminal

\* lines 132-133: future.result() re-raises what a task raised.
Join ==
    /\ ctrl = "extract"
    /\ AllTasksFinished
    /\ IF \E m \in DOMAIN task : task[m].pc = "raised"
       THEN /\ ctrl' = "aborted"
            /\ raised' = "TaskException"
            /\ UNCHANGED vi
       ELSE /\ ctrl' = "report"
            /\ vi' = 1
            /\ UNCHANGED raised
    /\ UNCHANGED <<yi, task, dirs, files, reports, attempted, acq>>
    /\ UNCHANGED dvars

(***************************************************************************)
(* generate_completeness_report, lines 102-121, one loop iteration a step, *)
(* and main's loop, lines 146-150.                                         *)
(***************************************************************************)
\* line 112: the .csv files of the processed directory
StationFiles(var, year) == {f \in files : f[1] = var /\ f[2] = year}

\* The report is written whatever the list holds.
WritesReportAlways(report_data) == TRUE

\* line 117: if report_data
WritesReport(report_data) == report_data # {}

\* After the iteration for variable vi: the next variable, or the next year.
AfterReport ==
    IF vi < Len(Variables)
    THEN /\ vi' = vi + 1
         /\ UNCHANGED <<ctrl, yi>>
    ELSE /\ vi' = 1
         /\ IF yi < NumYears
            THEN /\ yi' = yi + 1
                 /\ ctrl' = "acquire"
            ELSE /\ ctrl' = "done"
                 /\ UNCHANGED yi

Report ==
    /\ ctrl = "report"
    /\ LET v == Variables[vi]
           y == Years[yi]
       IN  /\ attempted' = attempted \cup {<<v, y>>}
           /\ IF ProcessedDir(v, y) \notin dirs
              THEN /\ AfterReport                                 \* lines 108-110
                   /\ UNCHANGED <<reports, raised>>
              ELSE IF WritesReport(StationFiles(v, y))
              THEN \/ /\ reports' = reports \cup {<<v, y>>}       \* lines 118-120
                      /\ AfterReport
                      /\ UNCHANGED raised
                   \/ /\ ctrl' = "aborted"                        \* to_csv fails
                      /\ raised' = "OSError"
                      /\ UNCHANGED <<reports, yi, vi>>
              ELSE /\ AfterReport
                   /\ UNCHANGED <<reports, raised>>
    /\ UNCHANGED <<task, dirs, files, acq>>
    /\ UNCHANGED dvars

CtrlInit ==
    /\ ctrl = "acquire"
    /\ yi = 1
    /\ vi = 1
    /\ task = NoTasks
    /\ dirs = {}
    /\ files = {}
    /\ reports = {}
    /\ attempted = {}
    /\ acq = [i \in 1..NumYears |-> "pending"]
    /\ raised = "none"

CtrlIdle ==
    /\ ctrl = "idle"
    /\ yi = 1
    /\ vi = 1
    /\ task = NoTasks
    /\ dirs = {}
    /\ files = {}
    /\ reports = {}
    /\ attempted = {}
    /\ acq = [i \in 1..NumYears |-> "pending"]
    /\ raised = "none"

(***************************************************************************)
(* The specifications.                                                     *)
(***************************************************************************)
Init == CtrlInit /\ DataIdle

Next ==
    \/ Acquire
    \/ \E m \in Members : TaskStart(m)
    \/ \E m \in Members : TaskRead(m)
    \/ \E m \in Members : TaskColumn(m)
    \/ \E m \in Members : TaskWrite(m)
    \/ Join
    \/ Report

Spec == Init /\ [][Next]_vars

SeriesInit == DataInit /\ CtrlIdle

SeriesNext == Extract \/ Project \/ Persist \/ Score

SpecSeries == SeriesInit /\ [][SeriesNext]_vars

(***************************************************************************)
(* Properties of the data path, checked under SpecSeries.                  *)
(***************************************************************************)
RawDatetime(j) == ToDatetime(raw[j].data, raw[j].hora)

\* C1: calculate_completeness returns a ratio r with 0 <= r <= 1 for every
\* persisted series, also when its timestamps are less than an hour apart.
C1_RatioWithinUnitInterval ==
    dpc = "scored" => (0 <= result /\ result <= 100)

\* C2: the timestamp index of an extracted table holds no duplicate and no
\* null timestamp; of the rows that share a timestamp the first in file
\* order is the one kept; only rows with an unparseable timestamp (and later
\* duplicates) are dropped.
C2_TimestampIndexUniqueFirstWins ==
    dpc \in {"table", "series", "persisted", "scored"} =>
        /\ \A i \in DOMAIN table : table[i].datetime # NaT
        /\ \A i, j \in DOMAIN table :
               i # j => table[i].datetime # table[j].datetime
        /\ \A i \in DOMAIN table :
               \E j \in DOMAIN raw :
                   /\ RawDatetime(j) = table[i].datetime
                   /\ raw[j].value = table[i].value
                   /\ \A j2 \in 1..(j - 1) : RawDatetime(j2) # table[i].datetime
        /\ \A j \in DOMAIN raw :
               RawDatetime(j) # NaT =>
                   \E i \in DOMAIN table : table[i].datetime = RawDatetime(j)

\* Two rows share a timestamp with different values, a third row has a
\* timestamp that does not parse, and the table has been extracted.
C2_Witness ==
    /\ dpc = "table"
    /\ \E j1, j2, j3 \in DOMAIN raw :
           /\ j1 < j2
           /\ RawDatetime(j1) # NaT
           /\ RawDatetime(j1) = RawDatetime(j2)
           /\ raw[j1].value # raw[j2].value
           /\ RawDatetime(j3) = NaT
    /\ Len(table) = 1

\* The station file of the scenario: 5 consecutive hourly rows, row p bad.
HourlyFive(p) == \E bad \in {TextCell, CommaCell} : raw = HourlyTable(5, p, bad)

\* C3 as stated: 5 consecutive hourly rows with one unparseable value at any
\* of the 5 positions give a persisted series of 4 rows with completeness 0.80.
C3_OneBadOfFiveGivesEighty ==
    \A p \in 1..5 :
        (dpc = "scored" /\ HourlyFive(p)) =>
            (Len(file.rows) = 4 /\ result = 80)

\* C3 amended: 5 consecutive hourly rows with one unparseable value give a
\* persisted series of 4 rows; completeness is 0.80 when the bad row is one of
\* the 3 inner rows and 1.00 when it is the first or the last row, because the
\* span is taken over the persisted rows.
C3_OneBadOfFiveAmended ==
    \A p \in 1..5 :
        (dpc = "scored" /\ HourlyFive(p)) =>
            /\ Len(file.rows) = 4
            /\ p \in 2..4 => result = 80
            /\ p \in {1, 5} => result = 100

\* The scenario with the bad value in the third row has been scored 0.80.
C3_Witness ==
    /\ dpc = "scored"
    /\ raw = HourlyTable(5, 3, TextCell)
    /\ Len(file.rows) = 4
    /\ result = 80

\* C9: a persisted series with zero rows scores 0.00 and one with exactly one
\* row scores 1.00.
C9_EmptyIsZeroSingleIsOne ==
    dpc = "scored" =>
        /\ Len(file.rows) = 0 => result = 0
        /\ Len(file.rows) = 1 => result = 100

\* A file of several rows of which one survives has been scored.
C9_Witness ==
    /\ dpc = "scored"
    /\ Len(raw) >= 2
    /\ Len(file.rows) = 1
    /\ result = 100

(***************************************************************************)
(* Properties of the controller, checked under Spec.                       *)
(***************************************************************************)
YearIndex(y) == CHOOSE i \in 1..NumYears : Years[i] = y
TaskFinished(m) == task[m].pc \in {"skipped", "done", "caught", "raised"}

\* C4: a failure inside one station task is caught inside the task: the
\* controller does not raise, and when the extraction phase is over every
\* other task has finished and each task that completed has written the file
\* of every target column it holds.
C4_TaskFailureIsContained ==
    /\ raised # "TaskException"
    /\ \A m \in DOMAIN task : task[m].pc # "raised"
    /\ (ctrl = "report" /\ \E m \in DOMAIN task : task[m].pc = "caught") =>
           \A n \in DOMAIN task :
               /\ TaskFinished(n)
               /\ task[n].pc = "done" =>
                      \A v \in n.cols :
                          OutputFile(v, task[n].year, StationCode(n)) \in files

\* One task was caught failing, another one completed and wrote a file, and
\* the controller has reached the report phase.
C4_Witness ==
    /\ ctrl = "report"
    /\ raised = "none"
    /\ \E m, n \in DOMAIN task :
           /\ task[m].pc = "caught"
           /\ task[n].pc = "done"
           /\ n.cols # {}
           /\ StationCode(n) # StationCode(m)

\* C5: no two station tasks of a period ever have the same output file open
\* for writing.
C5_NoTwoTasksWriteOnePath ==
    \A m, n \in DOMAIN task :
        (m # n /\ task[m].pc = "write" /\ task[n].pc = "write") =>
            OutputFile(Variables[task[m].k], task[m].year, StationCode(m))
                # OutputFile(Variables[task[n].k], task[n].year, StationCode(n))

\* C6: a failed acquisition, whatever the failure, does not abort the run, and
\* when the run is over every later period has been acquired.
C6_AcquisitionFailureIsLocal ==
    \A i \in 1..NumYears :
        acq[i] = "failed" =>
            /\ raised \notin DownloadFailures
            /\ ctrl = "done" => \A j \in i..NumYears : acq[j] # "pending"

\* C7: the phases of a period run in the order acquisition, extraction,
\* report: while a report is generated every task of the period has finished,
\* every task belongs to the current period and follows its acquisition, a
\* report is attempted only after the period's acquisition, and both reports of
\* every earlier period have been attempted.
C7_PhasesInOrder ==
    /\ ctrl = "report" => \A m \in DOMAIN task : TaskFinished(m)
    /\ \A m \in DOMAIN task :
           /\ task[m].year = Years[yi] \/ TaskFinished(m)
           /\ acq[YearIndex(task[m].year)] = "ok"
    /\ \A a \in attempted :
           /\ acq[YearIndex(a[2])] # "pending"
           /\ YearIndex(a[2]) <= yi
    /\ \A i \in 1..(yi - 1) : \A k \in DOMAIN Variables :
           <<Variables[k], Years[i]>> \in attempted
    /\ ctrl \in {"acquire", "extract"} =>
           \A k \in DOMAIN Variables : <<Variables[k], Years[yi]>> \notin attempted

\* The second period is in its extraction phase with a task at work, after
\* the first period wrote a report.
C7_Witness ==
    /\ yi = 2
    /\ ctrl = "extract"
    /\ \E m \in DOMAIN task : task[m].pc = "write"
    /\ \E v \in {Variables[k] : k \in DOMAIN Variables} : <<v, Years[1]>> \in reports

\* The report of <<var, year>> has nothing to read.
ReportInputMissing(var, year) ==
    ProcessedDir(var, year) \notin dirs \/ StationFiles(var, year) = {}

\* C8: a report iteration for a pair whose processed directory does not exist
\* or holds no series file writes no report for the pair, raises nothing, and
\* the other variable's report is still attempted (it was before, or it is the
\* next step of the same period).
C8_MissingInputSkipsReport ==
    [][(ctrl = "report" /\ ReportInputMissing(Variables[vi], Years[yi])) =>
          /\ <<Variables[vi], Years[yi]>> \notin reports'
          /\ reports' = reports
          /\ raised' = "none"
          /\ ctrl' # "aborted"
          /\ <<Variables[vi], Years[yi]>> \in attempted'
          /\ \A k \in DOMAIN Variables :
                 \/ <<Variables[k], Years[yi]>> \in attempted'
                 \/ (ctrl' = "report" /\ yi' = yi /\ vi' = k)]_vars

\* A directory that exists but holds no file was skipped without a report,
\* and the other variable's report of the same period was written.
C8_Witness ==
    \E k1, k2 \in DOMAIN Variables : \E i \in 1..NumYears :
        /\ k1 # k2
        /\ <<Variables[k1], Years[i]>> \in attempted
        /\ ProcessedDir(Variables[k1], Years[i]) \in dirs
        /\ StationFiles(Variables[k1], Years[i]) = {}
        /\ <<Variables[k1], Years[i]>> \notin reports
        /\ <<Variables[k2], Years[i]>> \in reports
        /\ raised = "none"

\* C10: after the extraction phase no series file exists, for either
\* variable, for a station whose task ended in a caught failure (stated for
\* stations that no other member of the archive shares).
C10_FailedStationAbsent ==
    ctrl = "report" =>
        \A m \in DOMAIN task :
            (/\ task[m].pc = "caught"
             /\ \A n \in DOMAIN task : n # m => StationCode(n) # StationCode(m)) =>
                \A k \in DOMAIN Variables :
                    OutputFile(Variables[k], task[m].year, StationCode(m)) \notin files

====
